---- MODULE Spec2Model ----
(***************************************************************************)
(* Model of examples/static-server/main.c: a libuv TCP server that feeds   *)
(* every chunk it reads to an http_parser and answers the first complete   *)
(* header block with a fixed response, then closes the connection.         *)
(*                                                                         *)
(* Every callback of main.c runs to completion on the single loop thread,  *)
(* so each action below is one callback invocation by the event loop.      *)
(* The bytes of a request are abstracted to the input symbols the parser   *)
(* distinguishes (Tokens).                                                 *)
(***************************************************************************)
EXTENDS Integers, Sequences, FiniteSets, TLC

\* ------------------------------------------------------------------ bounds
MaxClients == 2      \* connections accepted in one run
MaxInput == 4        \* input delivered in one run: symbols, and events without data

\* --------------------------------------------------------------- constants
UV_EOF == -4095
UV_ECONNRESET == -104

VARIABLES
  pc,          \* the process: "init", "serving", "exited", "aborted", "returned"
  request_id,  \* static int request_id
  clients,     \* the client_t objects allocated so far, in allocation order
  obs,         \* per client, what the environment has observed (history only)
  nreads       \* input delivered so far (history only)

vars == <<pc, request_id, clients, obs, nreads>>

\* Input symbols.  At the start of a message H, C and U are request lines
\* (HTTP/1.1, HTTP/1.0, CONNECT); inside a header block H, C, U and L are
\* header lines (plain, "Connection: close", upgrade, a declared body).
\* E is an empty line (CRLF), X is bytes the parser rejects in every state.
Tokens == {"H", "C", "U", "L", "E", "X"}

Chunks(n) == [1..n -> Tokens]

Slots == 1..Len(clients)

\* ------------------------------------------------------ the fixed response

DEFAULT_RESPONSE ==
  "HTTP/1.1 200 OK\r\n" \o
  "Content-Type: text/plain\r\n" \o
  "Content-Length: 12\r\n" \o
  "\r\n" \o
  "hello world\n"

\* strlen(s): the string holds no NUL
strlen(s) == Len(s)

\* default_response with len one more than the string, as sizeof would give
default_response_sizeof ==
  [base |-> DEFAULT_RESPONSE, len |-> strlen(DEFAULT_RESPONSE) + 1]

\* default_response as main() sets it before anything is served
default_response ==
  [base |-> DEFAULT_RESPONSE, len |-> strlen(DEFAULT_RESPONSE)]

\* ------------------------------------------------------------ libuv calls

\* uv_write(&client->write_req, handle, &default_response, 1, on_res_write).
\* The one write_req is queued for its completion callback; buf is the
\* buffer handed over.
uv_write(client, buf) ==
  [client EXCEPT !.nwrites = @ + 1,
                 !.pending = @ + 1,
                 !.wbuf = buf,
                 !.late_write = @ \/ client.nclose > 0]

\* uv_close(handle, cb): stops reading, marks the handle closing and
\* registers cb for the close completion.
uv_close(client, cb) ==
  [client EXCEPT !.reading = FALSE,
                 !.nclose = @ + 1,
                 !.close_cb = cb]

\* uv_read_start(handle, alloc_cb, on_client_read)
uv_read_start(client) == [client EXCEPT !.reading = TRUE]

\* ------------------------------------------------------------ http_parser

http_parser_init ==
  [state |-> "s_start_req", close |-> FALSE, upgrade |-> FALSE,
   body |-> FALSE, http_errno |-> "HPE_OK"]

\* NEW_MESSAGE(): the state after a message; a message that is not
\* keep-alive leaves the parser dead.
NEW_MESSAGE(p) == IF p.close THEN "s_dead" ELSE "s_start_req"

\* ---------------------------------------------------- main.c: the callbacks

\* on_headers_complete returning 0: a declared body is to be parsed
on_headers_complete_zero(client) == 0

\* on_headers_complete returns 1: the message has no body.
on_headers_complete(client) == 1

\* on_message_complete: respond, return 0.
on_message_complete(client) == uv_write(client, default_response)

\* The parser's loop over data[i..]: the client after the callbacks it
\* made, and the number of symbols consumed.
RECURSIVE parse_from(_, _, _)
parse_from(client, data, i) ==
  IF i > Len(data) THEN [client |-> client, parsed |-> Len(data)]
  ELSE
    LET p == client.parser
        ch == data[i]
        error == [client |-> [client EXCEPT !.parser.http_errno = "HPE_INVALID"],
                  parsed |-> i - 1]
    IN
    CASE p.state = "s_dead" ->
           IF ch = "E" THEN parse_from(client, data, i + 1) ELSE error
      [] p.state = "s_start_req" ->
           IF ch = "E" THEN parse_from(client, data, i + 1)
           ELSE IF ch \in {"H", "C", "U"}
           THEN parse_from([client EXCEPT !.parser =
                              [p EXCEPT !.state = "s_headers",
                                        !.close = (ch = "C"),
                                        !.upgrade = (ch = "U"),
                                        !.body = FALSE]],
                           data, i + 1)
           ELSE error
      [] p.state = "s_headers" ->
           IF ch = "X" THEN error
           ELSE IF ch # "E"
           THEN parse_from([client EXCEPT !.parser =
                              [p EXCEPT !.close = (@ \/ ch = "C"),
                                        !.upgrade = (@ \/ ch = "U"),
                                        !.body = (@ \/ ch = "L")]],
                           data, i + 1)
           ELSE
             LET r == on_headers_complete(client)
                 c1 == [client EXCEPT !.nheaders = @ + 1,
                                      !.nskip = IF r = 1 THEN @ + 1 ELSE @]
                 done == on_message_complete(
                           [c1 EXCEPT !.parser.state = NEW_MESSAGE(p),
                                      !.nmessages = @ + 1])
             IN
             IF r \notin {0, 1}
             THEN [client |-> [c1 EXCEPT !.parser.http_errno = "HPE_CB_headers_complete"],
                   parsed |-> i - 1]
             ELSE IF p.upgrade THEN [client |-> done, parsed |-> i]
             ELSE IF r = 1 \/ ~p.body THEN parse_from(done, data, i + 1)
             ELSE parse_from([c1 EXCEPT !.parser.state = "s_body"], data, i + 1)
      [] OTHER -> \* s_body: body bytes are consumed
           parse_from(client, data, i + 1)

\* http_parser_execute(&client->parser, &parser_settings, buf->base, nread)
http_parser_execute(client, data) ==
  IF client.parser.http_errno # "HPE_OK"
  THEN [client |-> client, parsed |-> 0]
  ELSE parse_from(client, data, 1)

\* malloc(size) in alloc_cb: the chunk buffer, or NULL
alloc_cb(client, ok) ==
  [client EXCEPT !.buf = IF ~ok THEN "null"
                         ELSE IF @ = "live" THEN "leaked" ELSE "live"]

\* free(buf->base)
free(client) ==
  [client EXCEPT !.buf = CASE @ = "live" -> "freed"
                           [] @ = "freed" -> "double"
                           [] OTHER -> @]

\* on_client_read without the uv_close of its end-of-stream branch
on_client_read_keeps_eof(client, nread, data) ==
  LET c2 == IF nread = UV_EOF THEN client
            ELSE IF nread > 0
            THEN LET res == http_parser_execute(client, data) IN
                 IF res.parsed < nread
                 THEN uv_close(res.client, "on_res_end")
                 ELSE res.client
            ELSE client
  IN IF c2.buf # "null" THEN free(c2) ELSE c2

\* on_client_read returning from its error branch without the free
on_client_read_leaks_on_error(client, nread, data) ==
  LET c2 == IF nread = UV_EOF THEN uv_close(client, "NULL")
            ELSE IF nread > 0
            THEN LET res == http_parser_execute(client, data) IN
                 IF res.parsed < nread
                 THEN uv_close(res.client, "on_res_end")
                 ELSE res.client
            ELSE client
  IN IF c2.buf # "null" /\ (nread = UV_EOF \/ nread > 0) THEN free(c2) ELSE c2

\* on_client_read answering a rejected chunk instead of closing on it
on_client_read_answers_reject(client, nread, data) ==
  LET c2 == IF nread = UV_EOF THEN uv_close(client, "NULL")
            ELSE IF nread > 0
            THEN LET res == http_parser_execute(client, data) IN
                 IF res.parsed < nread
                 THEN uv_write(res.client, default_response)
                 ELSE res.client
            ELSE client
  IN IF c2.buf # "null" THEN free(c2) ELSE c2

\* on_client_read(tcp, nread, buf); client.buf is the buffer alloc_cb gave
on_client_read(client, nread, data) ==
  LET c2 == IF nread = UV_EOF THEN uv_close(client, "NULL")
            ELSE IF nread > 0
            THEN LET res == http_parser_execute(client, data) IN
                 IF res.parsed < nread
                 THEN uv_close(res.client, "on_res_end")
                 ELSE res.client
            ELSE client
  IN IF c2.buf # "null" THEN free(c2) ELSE c2

\* on_res_write that closes and then writes once more
on_res_write_after_close(client) ==
  uv_write(uv_close(client, "on_res_end"), default_response)

\* on_res_write(req, status) when CHECK(status) passes
on_res_write(client) == uv_close(client, "on_res_end")

\* on_res_end(handle): logs only
on_res_end(client) == client

\* CHECK that logs and goes on
CHECK_goes_on(r) == FALSE

\* CHECK(r, msg): exit(1) when r is not 0
CHECK(r) == r # 0

\* client_t as on_connect leaves it before uv_accept
client_t(id) ==
  [request_id |-> id,
   allocated |-> TRUE,     \* malloc'ed and not yet free'd
   parser |-> http_parser_init,
   reading |-> FALSE,      \* read notifications are on
   buf |-> "none",         \* the chunk buffer of the last read: "none",
                           \* "null", "live", "freed", "leaked", "double"
   nheaders |-> 0,         \* calls of on_headers_complete
   nskip |-> 0,            \* of these, the ones that returned 1 (skip the body)
   nmessages |-> 0,        \* calls of on_message_complete
   nwrites |-> 0,          \* calls of uv_write
   wbuf |-> [base |-> "", len |-> 0],  \* the buffer of the last uv_write
   pending |-> 0,          \* write completions not yet delivered
   late_write |-> FALSE,   \* uv_write was called after uv_close
   nclose |-> 0,           \* calls of uv_close
   close_cb |-> "none",    \* the close callback registered last
   nclosed |-> 0,          \* close completions delivered
   nres_end |-> 0]         \* calls of on_res_end

\* on_connect with client->request_id = request_id and no increment
on_connect_same_id(id, r) ==
  [client |-> IF r # 0 THEN uv_close(client_t(id), "NULL")
              ELSE uv_read_start(client_t(id)),
   request_id |-> id]

\* on_connect starting to read whatever uv_accept returned
on_connect_reads_anyway(id, r) ==
  [client |-> IF r # 0 THEN uv_read_start(uv_close(client_t(id), "NULL"))
              ELSE uv_read_start(client_t(id)),
   request_id |-> id + 1]

\* on_connect after CHECK(status): the new client_t, which takes the
\* value of request_id, and request_id after the increment.  r is the
\* result of uv_accept.
on_connect(id, r) ==
  [client |-> IF r # 0 THEN uv_close(client_t(id), "NULL")
              ELSE uv_read_start(client_t(id)),
   request_id |-> id + 1]

\* ------------------------------------------------------------ observations

obs_t ==
  [sent |-> "empty",       \* what the client's bytes amount to so far
   rejected |-> "no",      \* a chunk was consumed only in part, and when
   eof_early |-> FALSE,    \* end-of-stream before a complete header block
   readerr |-> FALSE,      \* a transport error arrived while still Reading
   wstatus |-> "none",     \* status of the last write completion
   accept_failed |-> FALSE] \* uv_accept failed for this connection

\* The client's byte stream, judged without the parser: "one" is exactly one
\* well-formed header block and nothing after it.
RECURSIVE Classify(_, _, _)
Classify(s, data, i) ==
  IF i > Len(data) THEN s
  ELSE LET ch == data[i] IN
       Classify(CASE s = "empty" /\ ch \in {"H", "C", "U"} -> "partial"
                  [] s = "partial" /\ ch \in {"H", "C", "U"} -> "partial"
                  [] s = "partial" /\ ch = "E" -> "one"
                  [] OTHER -> "other",
                data, i + 1)

\* What one read callback adds: parsed is what the parser consumed of data.
Observe(o, before, after, nread, data) ==
  LET parsed == IF nread > 0 THEN http_parser_execute(before, data).parsed ELSE 0 IN
  [o EXCEPT
     !.sent = IF nread > 0 THEN Classify(@, data, 1)
              ELSE IF nread < 0 THEN "other" ELSE @,
     !.rejected =
        IF nread > 0 /\ parsed < nread /\ @ = "no"
        THEN (IF after.nheaders > 0 THEN "after_mc"
              ELSE IF o.sent = "empty" /\ parsed = 0 THEN "first"
              ELSE "before_mc")
        ELSE @,
     !.eof_early = @ \/ (nread = UV_EOF /\ before.nheaders = 0),
     !.readerr = @ \/ (nread < 0 /\ nread # UV_EOF
                       /\ before.nwrites = 0 /\ before.nclose = 0)]

\* ------------------------------------------------------------------ actions

Init ==
  /\ pc = "init"
  /\ request_id = 0
  /\ clients = << >>
  /\ obs = << >>
  /\ nreads = 0

\* main(): request_id = 0; the address, the handle and the bind are
\* CHECKed, the result of uv_listen is not; uv_run returns when nothing
\* is listening.
Main ==
  /\ pc = "init"
  /\ \E fail \in {"none", "uv_ip4_addr", "uv_tcp_init", "uv_tcp_bind", "uv_listen"} :
       pc' = CASE fail = "none" -> "serving"
               [] fail = "uv_listen" -> "returned"
               [] OTHER -> "exited"
  /\ request_id' = 0
  /\ UNCHANGED <<clients, obs, nreads>>

\* The loop calls on_connect(server, status).
Connect ==
  /\ pc = "serving"
  /\ Len(clients) < MaxClients
  /\ \E status \in {0, UV_ECONNRESET}, r \in {0, UV_ECONNRESET} :
       IF CHECK(status)
       THEN pc' = "exited" /\ UNCHANGED <<request_id, clients, obs, nreads>>
       ELSE /\ clients' = Append(clients, on_connect(request_id, r).client)
            /\ request_id' = on_connect(request_id, r).request_id
            /\ obs' = Append(obs, [obs_t EXCEPT !.accept_failed = (r # 0)])
            /\ UNCHANGED <<pc, nreads>>

\* Read with one parser for all connections in place of client->parser
Read_one_parser(c) ==
  /\ pc = "serving"
  /\ clients[c].reading
  /\ nreads < MaxInput
  /\ \E nread \in {UV_EOF, UV_ECONNRESET} \cup (0..(MaxInput - nreads)) :
     \E data \in Chunks(IF nread > 0 THEN nread ELSE 0),
        ok \in (IF nread = UV_ECONNRESET THEN BOOLEAN ELSE {TRUE}) :
       LET after == on_client_read(alloc_cb(clients[c], ok), nread, data)
           stop == [after EXCEPT !.reading = @ /\ nread >= 0]
       IN /\ nreads' = nreads + (IF nread > 0 THEN nread ELSE 1)
          /\ clients' = [d \in DOMAIN clients |->
                          IF d = c THEN stop
                          ELSE [clients[d] EXCEPT !.parser = stop.parser]]
          /\ obs' = [obs EXCEPT ![c] = Observe(@, clients[c], after, nread, data)]
  /\ UNCHANGED <<pc, request_id>>

\* The loop calls alloc_cb and on_client_read(tcp, nread, buf) for a handle
\* that is reading; after end-of-stream or an error it stops reading.
\* When alloc_cb gives no buffer the read is an error.
Read(c) ==
  /\ pc = "serving"
  /\ clients[c].reading
  /\ nreads < MaxInput
  /\ \E nread \in {UV_EOF, UV_ECONNRESET} \cup (0..(MaxInput - nreads)) :
     \E data \in Chunks(IF nread > 0 THEN nread ELSE 0),
        ok \in (IF nread = UV_ECONNRESET THEN BOOLEAN ELSE {TRUE}) :
       LET after == on_client_read(alloc_cb(clients[c], ok), nread, data)
           stop == [after EXCEPT !.reading = @ /\ nread >= 0]
       IN /\ nreads' = nreads + (IF nread > 0 THEN nread ELSE 1)
          /\ clients' = [clients EXCEPT ![c] = stop]
          /\ obs' = [obs EXCEPT ![c] = Observe(@, clients[c], after, nread, data)]
  /\ UNCHANGED <<pc, request_id>>

\* The loop calls on_res_write(req, status) for a queued write.  Queueing
\* the one write_req again while it is queued is undefined: its callback
\* runs once for each uv_write or once for all of them.  uv_close on a
\* handle that is already closing trips an assertion of libuv, or goes
\* through when assertions are compiled out.
WriteComplete(c) ==
  /\ pc = "serving"
  /\ clients[c].pending > 0
  /\ \E status \in {0, UV_ECONNRESET}, assert \in BOOLEAN, once \in BOOLEAN :
       LET cl == [clients[c] EXCEPT !.pending = IF once THEN 0 ELSE @ - 1] IN
       /\ obs' = [obs EXCEPT ![c].wstatus = IF status = 0 THEN "ok" ELSE "failed"]
       /\ IF CHECK(status)
          THEN pc' = "exited" /\ clients' = [clients EXCEPT ![c] = cl]
          ELSE /\ clients' = [clients EXCEPT ![c] = on_res_write(cl)]
               /\ pc' = IF cl.nclose > 0 /\ assert THEN "aborted" ELSE pc
  /\ UNCHANGED <<request_id, nreads>>

\* The loop completes a close once the handle's write callbacks have run,
\* and calls the close callback if one was given.
CloseComplete(c) ==
  /\ pc = "serving"
  /\ clients[c].nclosed < clients[c].nclose
  /\ clients[c].pending = 0
  /\ LET cl == [clients[c] EXCEPT !.nclosed = @ + 1] IN
     clients' = [clients EXCEPT ![c] =
                   IF cl.close_cb = "on_res_end"
                   THEN [on_res_end(cl) EXCEPT !.nres_end = @ + 1]
                   ELSE cl]
  /\ UNCHANGED <<pc, request_id, obs, nreads>>

Next ==
  \/ Main
  \/ Connect
  \/ \E c \in Slots : Read(c)
  \/ \E c \in Slots : WriteComplete(c)
  \/ \E c \in Slots : CloseComplete(c)

Spec == Init /\ [][Next]_vars

\* libuv delivers every completion callback it owes.
FairSpec ==
  /\ Spec
  /\ \A c \in 1..MaxClients : WF_vars(c \in Slots /\ WriteComplete(c))
  /\ \A c \in 1..MaxClients : WF_vars(c \in Slots /\ CloseComplete(c))

\* ------------------------------------------------------------------- claims

\* The connection has nothing scheduled: no reads, no write completion and
\* no close completion will be delivered to it.
Quiescent(c) ==
  /\ ~clients[c].reading
  /\ clients[c].pending = 0
  /\ clients[c].nclosed = clients[c].nclose

\* One response written, its write completed, then one close, completed.
Responded(c) ==
  /\ clients[c].nwrites = 1
  /\ clients[c].pending = 0
  /\ obs[c].wstatus = "ok"
  /\ clients[c].nclose = 1
  /\ clients[c].nclosed = 1
  /\ clients[c].nres_end = 1

\* C1: a connection whose client sent exactly one well-formed header block
\* and nothing after it, and whose write does not fail, eventually has the
\* response written once and is then closed, the close completion
\* delivered.
C1_ResponseThenClose ==
  \A c \in 1..MaxClients :
    [](c \in Slots /\ obs[c].sent = "one"
       => <>(c \in Slots /\ (\/ obs[c].sent # "one"
                               \/ obs[c].wstatus = "failed"
                               \/ Responded(c))))

\* C2: after end-of-stream arrived before a complete header block was
\* parsed, close has been initiated on the connection and no write is ever
\* issued on it.
C2_EofBeforeHeaders ==
  \A c \in Slots :
    obs[c].eof_early => clients[c].nclose >= 1 /\ clients[c].nwrites = 0

C2_Witness ==
  \E c \in Slots :
    /\ obs[c].eof_early
    /\ clients[c].parser.state = "s_headers"
    /\ clients[c].nclosed = 1

\* C3: once a chunk was consumed only in part, the connection has been
\* closed and no write was issued on it, also when a message had completed
\* earlier in the stream.
C3_PartialNoWrite ==
  \A c \in Slots :
    obs[c].rejected # "no" => clients[c].nclose >= 1 /\ clients[c].nwrites = 0

\* C4: a connection has at most one write issued on it, and never a second
\* one while the completion of the first is pending.
C4_AtMostOneWrite ==
  \A c \in Slots : clients[c].nwrites <= 1 /\ clients[c].pending <= 1

\* C5: close is initiated on a connection at most once.
C5_AtMostOneClose ==
  \A c \in Slots : clients[c].nclose <= 1

\* C6: close is not initiated on a connection while the completion of its
\* write is pending.
C6_NoCloseBeforeWriteDone ==
  \A c \in Slots : ~(clients[c].nclose >= 1 /\ clients[c].pending >= 1)

\* C7: identities are strictly increasing in accept order (hence unique),
\* and the identity of a connection never changes.
C7_UniqueIncreasingIds ==
  /\ [](\A i, j \in Slots :
         i < j => clients[i].request_id < clients[j].request_id)
  /\ [][\A c \in Slots : clients'[c].request_id = clients[c].request_id]_vars

C7_Witness ==
  /\ Len(clients) = MaxClients
  /\ clients[1].pending = 1
  /\ clients[2].nclosed = 1

\* C8: when the first bytes of a connection are rejected by the parser,
\* close has been initiated on the connection and no write is ever issued
\* on it.
C8_MalformedStart ==
  \A c \in Slots :
    obs[c].rejected = "first" => clients[c].nclose >= 1 /\ clients[c].nwrites = 0

C8_Witness ==
  \E c \in Slots :
    /\ obs[c].rejected = "first"
    /\ clients[c].parser.http_errno # "HPE_OK"
    /\ clients[c].nres_end = 1

\* C9: a connection that got a transport read error while Reading is
\* closed without a response; stated of the connection once nothing more
\* is scheduled for it, when it can no longer become closed.
C9_ReadErrorCloses ==
  \A c \in Slots :
    obs[c].readerr /\ Quiescent(c)
      => clients[c].nclosed >= 1 /\ clients[c].nwrites = 0

\* C10: while serving, no event ends the process and no event changes
\* more than the connection it is for.
C10_EventsConnectionScoped ==
  [][pc = "serving"
       => /\ pc' = "serving"
          /\ Cardinality({c \in Slots : clients'[c] # clients[c]}) <= 1]_vars

\* C11: the memory of a connection whose close completion has fired has
\* been released.
C11_ReleasedOnClose ==
  \A c \in Slots : clients[c].nclosed >= 1 => ~clients[c].allocated

\* C12 as stated: the buffer written is the fixed literal and 90 bytes are
\* handed to the write.
C12_Response90 ==
  \A c \in Slots :
    clients[c].nwrites >= 1
      => /\ clients[c].wbuf.base =
              "HTTP/1.1 200 OK\r\nContent-Type: text/plain\r\nContent-Length: 12\r\n\r\nhello world\n"
         /\ clients[c].wbuf.len = 90

\* C12, amended: the buffer written is the fixed literal and 77 bytes are
\* handed to the write.
C12_Response77 ==
  \A c \in Slots :
    clients[c].nwrites >= 1
      => /\ clients[c].wbuf.base =
              "HTTP/1.1 200 OK\r\nContent-Type: text/plain\r\nContent-Length: 12\r\n\r\nhello world\n"
         /\ clients[c].wbuf.len = 77

C12_Witness ==
  \E c \in Slots :
    /\ clients[c].nwrites = 1
    /\ clients[c].wbuf.len = Len(clients[c].wbuf.base)
    /\ obs[c].wstatus = "ok"

\* C13: a connection whose uv_accept failed has its handle closed at once,
\* is never read from and never written to, and the server goes on
\* accepting connections.
C13_AcceptFailure ==
  \A c \in Slots :
    obs[c].accept_failed
      => /\ clients[c].nclose = 1
         /\ ~clients[c].reading
         /\ obs[c].sent = "empty"
         /\ clients[c].nwrites = 0
         /\ (pc = "serving" /\ Len(clients) < MaxClients => ENABLED Connect)

C13_Witness ==
  \E c, d \in Slots :
    /\ c < d
    /\ obs[c].accept_failed
    /\ clients[c].nclosed = 1
    /\ ~obs[d].accept_failed
    /\ clients[d].nwrites = 1

\* C14: the write completion that reports a failed write ends the process
\* (no callback of any connection runs after it) without initiating close
\* on its connection.
C14_WriteFailureFatal ==
  [][\A c \in Slots :
       obs'[c].wstatus = "failed" /\ clients'[c].pending < clients[c].pending
         => /\ pc' = "exited"
            /\ clients'[c].nclose = clients[c].nclose]_vars

C14_Witness ==
  \E c, d \in Slots :
    /\ c # d
    /\ obs[c].wstatus = "failed"
    /\ pc = "exited"
    /\ clients[c].nclose = 0
    /\ clients[d].reading

\* C15: every write was issued by a call of on_message_complete, and every
\* call of on_message_complete follows a call of on_headers_complete on the
\* same connection that signalled body-skipping; no write exists while
\* message-complete has not fired.
C15_WriteOnlyOnMessageComplete ==
  \A c \in Slots :
    /\ clients[c].nwrites = clients[c].nmessages
    /\ clients[c].nmessages <= clients[c].nskip
    /\ clients[c].nskip <= clients[c].nheaders

C15_Witness ==
  \E c \in Slots :
    /\ clients[c].parser.body
    /\ clients[c].nskip = 1
    /\ clients[c].nmessages = 1
    /\ clients[c].nwrites = 1

\* C16: between callbacks no chunk buffer is live: the buffer of every read
\* was released once by the read callback that received it, and none was
\* dropped unreleased or released twice.
C16_BufferReleasedOnce ==
  \A c \in Slots : clients[c].buf \in {"none", "null", "freed"}

C16_Witness ==
  \E c \in Slots :
    /\ clients[c].buf = "freed"
    /\ obs[c].rejected = "after_mc"

\* C17: a connection starts with a freshly initialised parser of its own;
\* a callback that leaves the process running changes at most the connection
\* it runs for, creating a connection changes no other, only a read callback
\* changes a parser, and a parser that has stopped on an error is never
\* initialised again.
C17_OwnParserAndFrame ==
  [][pc' = "serving"
       => /\ \A c \in Slots : \A d \in Slots \ {c} :
                clients'[c] # clients[c] => clients'[d] = clients[d]
          /\ Len(clients') > Len(clients)
                => /\ clients'[Len(clients')].parser = http_parser_init
                   /\ \A c \in Slots : clients'[c] = clients[c]
          /\ \A c \in Slots :
                /\ clients'[c].parser # clients[c].parser => nreads' > nreads
                /\ clients[c].parser.http_errno # "HPE_OK"
                      => clients'[c].parser = clients[c].parser
                /\ clients'[c].request_id = clients[c].request_id]_vars

C17_Witness ==
  /\ Len(clients) = 2
  /\ clients[1].parser.state = "s_headers"
  /\ clients[1].parser.http_errno = "HPE_OK"
  /\ clients[2].parser.http_errno # "HPE_OK"
  /\ clients[1].nwrites = 0
  /\ clients[2].nclose = 1

\* C18: a connection whose message-complete has fired and on which no
\* close has been initiated is still reading: data and end-of-stream are
\* still delivered to on_client_read.
C18_ReadsNeverStopped ==
  \A c \in Slots :
    clients[c].nmessages >= 1 /\ clients[c].nclose = 0
      => clients[c].reading

\* C19: no uv_write is called on a connection on which uv_close has been
\* called: every write of a connection precedes every close initiation.
C19_NoWriteAfterClose ==
  \A c \in Slots : ~clients[c].late_write

C19_Witness ==
  \E c \in Slots :
    /\ clients[c].nwrites >= 2
    /\ clients[c].nclose >= 1
    /\ clients[c].pending >= 1
    /\ ~clients[c].late_write

====
